---- MODULE Spec2Model ----
(***************************************************************************)
(* A model of the table query engine of CSV_Processor123                   *)
(* (src/processor.py): CSVProcessor with from_files, apply_filter,         *)
(* apply_sort, apply_aggregate, grouped_report and _parse_condition.       *)
(*                                                                         *)
(* A Python str is a sequence of one-character strings, so that splitting, *)
(* stripping, reversing, comparing and float() are computed character by   *)
(* character.  A float is an integer count of 1/Scale units, which is      *)
(* exact for every value and every sum the model reaches.  An exception is *)
(* a record naming its Python class, its message and the text the message  *)
(* quotes.                                                                 *)
(***************************************************************************)
EXTENDS Integers, Sequences, FiniteSets

VARIABLES headers, rows, prev, call, out

vars == <<headers, rows, prev, call, out>>

(***************************************************************************)
(* Bounds of the model.                                                    *)
(***************************************************************************)
MaxRows == 3
MaxFiles == 2
MaxLen == 4
MaxSourceRows == 1

(***************************************************************************)
(* Strings.                                                                *)
(***************************************************************************)
brand == <<"b", "r", "a", "n", "d">>
rating == <<"r", "a", "t", "i", "n", "g">>
name == <<"n", "a", "m", "e">>
price == <<"p", "r", "i", "c", "e">>
asc == <<"a", "s", "c">>
desc == <<"d", "e", "s", "c">>
avg == <<"a", "v", "g">>
min == <<"m", "i", "n">>
max == <<"m", "a", "x">>
\* a direction and a kind the program does not know
up == <<"u", "p">>
sum == <<"s", "u", "m">>
\* None: a sequence that is no str (its one element is not a character).
None == <<"None">>

\* The characters the model uses, in code point order.
CodePoints ==
    << " ", "!", "-", ".", "0", "1", "2", "3", "4", "5", "6", "7", "8", "9",
       "<", "=", ">",
       "a", "b", "c", "d", "e", "f", "g", "h", "i", "j", "k", "l", "m",
       "n", "o", "p", "q", "r", "s", "t", "u", "v", "w", "x", "y", "z" >>

ord(c) == CHOOSE i \in 1..Len(CodePoints) : CodePoints[i] = c

\* s < t for two str: the first differing character decides, a proper
\* prefix is smaller.
RECURSIVE StrLess(_, _)
StrLess(s, t) ==
    IF t = <<>> THEN FALSE
    ELSE IF s = <<>> THEN TRUE
    ELSE IF Head(s) = Head(t) THEN StrLess(Tail(s), Tail(t))
    ELSE ord(Head(s)) < ord(Head(t))

\* s[::-1]
RECURSIVE Reversed(_)
Reversed(s) == IF s = <<>> THEN <<>> ELSE Append(Reversed(Tail(s)), Head(s))

\* c in s, s.count(c), and the index of the first c in s (0 when absent).
Contains(s, c) == \E i \in 1..Len(s) : s[i] = c

Count(s, c) == Cardinality({i \in 1..Len(s) : s[i] = c})

Find(s, c) ==
    IF Contains(s, c)
    THEN CHOOSE i \in 1..Len(s) : s[i] = c /\ \A j \in 1..(i - 1) : s[j] # c
    ELSE 0

\* s.split(c, 1) for a string that contains c.
Split1(s, c) == <<SubSeq(s, 1, Find(s, c) - 1), SubSeq(s, Find(s, c) + 1, Len(s))>>

\* s.strip()
RECURSIVE LStrip(_)
LStrip(s) == IF s # <<>> /\ Head(s) = " " THEN LStrip(Tail(s)) ELSE s

strip(s) == Reversed(LStrip(Reversed(LStrip(s))))

(***************************************************************************)
(* Results of a call.                                                      *)
(***************************************************************************)
Return(v) == [ok |-> TRUE, value |-> v]

Raise(exc, msg, about) == [ok |-> FALSE, exc |-> exc, msg |-> msg, about |-> about]

(***************************************************************************)
(* _parse_condition                                                        *)
(***************************************************************************)
_parse_condition_FirstInString(condition, expected_op) ==
    IF Contains(condition, "=") /\ Count(condition, "=") = 1
    THEN LET p == Split1(condition, "=")
         IN  IF expected_op # None
             THEN Return(<<strip(p[1]), strip(p[2])>>)
             ELSE Return(<<strip(p[1]), <<"=">>, strip(p[2])>>)
    ELSE IF Contains(condition, ">") /\
            (~Contains(condition, "<") \/ Find(condition, ">") < Find(condition, "<"))
    THEN LET p == Split1(condition, ">")
         IN  Return(<<strip(p[1]), <<">">>, strip(p[2])>>)
    ELSE IF Contains(condition, "<")
    THEN LET p == Split1(condition, "<")
         IN  Return(<<strip(p[1]), <<"<">>, strip(p[2])>>)
    ELSE Raise("ValueError", "Condition must contain >, < or =.", <<>>)

_parse_condition(condition, expected_op) ==
    IF Contains(condition, "=") /\ Count(condition, "=") = 1
    THEN LET p == Split1(condition, "=")
         IN  IF expected_op # None
             THEN Return(<<strip(p[1]), strip(p[2])>>)
             ELSE Return(<<strip(p[1]), <<"=">>, strip(p[2])>>)
    ELSE IF Contains(condition, ">")
    THEN LET p == Split1(condition, ">")
         IN  Return(<<strip(p[1]), <<">">>, strip(p[2])>>)
    ELSE IF Contains(condition, "<")
    THEN LET p == Split1(condition, "<")
         IN  Return(<<strip(p[1]), <<"<">>, strip(p[2])>>)
    ELSE Raise("ValueError", "Condition must contain >, < or =.", <<>>)

\* The condition strings handed to _parse_condition when it is checked alone.
ConditionChars == {"a", " ", ">", "<", "="}

Conditions == UNION {[1..n -> ConditionChars] : n \in 0..MaxLen}

InitParse ==
    /\ headers = <<brand, rating>>
    /\ rows = <<>>
    /\ prev = <<>>
    /\ call = [op |-> "init"]
    /\ out = Return(None)

ParseCondition ==
    /\ call.op = "init"
    /\ \E condition \in Conditions, expected_op \in {None, <<"=">>} :
        /\ call' = [op |-> "parse", condition |-> condition, expected_op |-> expected_op]
        /\ out' = _parse_condition(condition, expected_op)
        /\ prev' = rows
        /\ UNCHANGED <<headers, rows>>

SpecParse == InitParse /\ [][ParseCondition]_vars

(***************************************************************************)
(* float() and _is_numeric                                                 *)
(***************************************************************************)
\* round(x, 2): results are counted in units of 1/Scale.
Scale == 100

Digits == <<"0", "1", "2", "3", "4", "5", "6", "7", "8", "9">>

IsDigit(c) == \E i \in 1..Len(Digits) : Digits[i] = c

DigitVal(c) == (CHOOSE i \in 1..Len(Digits) : Digits[i] = c) - 1

AllDigits(s) == \A i \in 1..Len(s) : IsDigit(s[i])

RECURSIVE DigitsVal(_)
DigitsVal(s) ==
    IF s = <<>> THEN 0 ELSE DigitsVal(SubSeq(s, 1, Len(s) - 1)) * 10 + DigitVal(s[Len(s)])

\* Whether float(value) succeeds, on the model's characters: surrounding
\* blanks are dropped, then digits with at most one "." and at least one digit.
_is_numeric(value) ==
    LET t == strip(value)
    IN  IF Contains(t, ".")
        THEN LET p == Split1(t, ".")
             IN  AllDigits(p[1]) /\ AllDigits(p[2]) /\ Len(p[1]) + Len(p[2]) > 0
        ELSE AllDigits(t) /\ t # <<>>

\* float(value) in units of 1/Scale, for a value float() accepts with at
\* most two digits after the point.
Float(value) ==
    LET t == strip(value)
        ip == IF Contains(t, ".") THEN Split1(t, ".")[1] ELSE t
        fp == IF Contains(t, ".") THEN Split1(t, ".")[2] ELSE <<>>
        f2 == SubSeq(fp \o <<"0", "0">>, 1, 2)
    IN  DigitsVal(ip) * Scale + DigitsVal(f2)

FloatError(value) ==
    Raise("ValueError", "could not convert string to float", value)

(***************************************************************************)
(* Tables: the headers and rows a csv.DictReader hands to the constructor. *)
(***************************************************************************)
s_empty == <<>>
s_a == <<"a">>
s_ab == <<"a", "b">>
s_x == <<"x">>
s_b == <<"b">>
s_9_75 == <<"9", ".", "7", "5">>
s_10 == <<"1", "0">>

ValuesOf(col) ==
    IF col = brand THEN {s_empty, s_a, s_ab, s_b}
    ELSE IF col = rating THEN {s_empty, s_9_75, s_10, s_x}
    ELSE IF col = name THEN {s_a}
    ELSE {s_10}

HeaderPool == {<<brand, rating>>, <<name, rating>>, <<brand, price>>}

Columns(h) == {h[i] : i \in 1..Len(h)}

\* One record of a DictReader: the fields of a line keyed by the header.
Row(h, fields) == [c \in Columns(h) |-> fields[CHOOSE i \in 1..Len(h) : h[i] = c]]

BrandRatingLines ==
    { <<s_a, s_9_75>>, <<s_a, s_10>>, <<s_ab, s_x>>, <<s_b, s_10>>,
      <<s_b, s_empty>>, <<s_empty, s_10>> }

RowsOf(h) ==
    IF h = <<brand, rating>>
    THEN {Row(h, l) : l \in BrandRatingLines}
    ELSE {Row(h, <<v1, v2>>) : v1 \in ValuesOf(h[1]), v2 \in ValuesOf(h[2])}

SeqsUpTo(S, n) == UNION {[1..k -> S] : k \in 0..n}

\* CSVProcessor.__init__: a table needs a header.
Init ==
    /\ headers \in HeaderPool
    /\ rows \in SeqsUpTo(RowsOf(headers), MaxRows)
    /\ headers # <<>>
    /\ prev = rows
    /\ call = [op |-> "init"]
    /\ out = Return(None)

\* main() calls apply_filter first, then apply_sort, then ends with one
\* grouped_report or one apply_aggregate; an exception ends it at once.
Consumed == ~out.ok \/ call.op \in {"aggregate", "report"}

Filtered == ~out.ok \/ call.op # "init"

Sorted == ~out.ok \/ call.op \notin {"init", "filter"}

(***************************************************************************)
(* apply_filter                                                            *)
(***************************************************************************)
\* ops[op](a, b): a truth value, or the exception float() raises.
Compare(op, va, vb) ==
    IF op = <<"=">> THEN Return(va = vb)
    ELSE IF ~_is_numeric(va) THEN FloatError(va)
    ELSE IF ~_is_numeric(vb) THEN FloatError(vb)
    ELSE IF op = <<">">> THEN Return(Float(va) > Float(vb))
    ELSE Return(Float(va) < Float(vb))

\* [r for r in rows if ops[op](r[col], val)]: the first row whose test
\* raises ends the comprehension.
RECURSIVE FilterRowsSkippingUnparsed(_, _, _, _)
FilterRowsSkippingUnparsed(rs, col, op, val) ==
    IF rs = <<>> THEN Return(<<>>)
    ELSE LET t == Compare(op, Head(rs)[col], val)
             rest == FilterRowsSkippingUnparsed(Tail(rs), col, op, val)
         IN  IF ~t.ok THEN rest
             ELSE IF t.value THEN Return(<<Head(rs)>> \o rest.value)
             ELSE rest

RECURSIVE FilterRows(_, _, _, _)
FilterRows(rs, col, op, val) ==
    IF rs = <<>> THEN Return(<<>>)
    ELSE LET t == Compare(op, Head(rs)[col], val)
         IN  IF ~t.ok THEN t
             ELSE LET rest == FilterRows(Tail(rs), col, op, val)
                  IN  IF ~rest.ok THEN rest
                      ELSE IF t.value THEN Return(<<Head(rs)>> \o rest.value)
                      ELSE rest

ColumnNotFoundUnnamed(col) == Raise("ValueError", "Column not found in CSV.", <<>>)

ColumnNotFound(col) == Raise("ValueError", "Column not found in CSV.", col)

apply_filter(hs, rs, where) ==
    LET pc == _parse_condition(where, None)
    IN  IF ~pc.ok THEN pc
        ELSE LET col == pc.value[1]
                 op == pc.value[2]
                 val == pc.value[3]
             IN  IF col \notin Columns(hs) THEN ColumnNotFound(col)
                 ELSE IF op \notin {<<">">>, <<"<">>, <<"=">>}
                 THEN Raise("ValueError", "Invalid operator. Supported: >, <, =.", op)
                 ELSE FilterRows(rs, col, op, val)

Join(col, op, val) == col \o op \o val

FilterConditions ==
    {Join(rating, o, v) : o \in {<<">">>, <<"<">>}, v \in {s_9_75, s_10, s_x}}
    \cup {Join(rating, <<"=">>, s_10), Join(brand, <<"=">>, s_a),
          Join(brand, <<">">>, s_10), Join(price, <<"<">>, s_10),
          Join(rating, <<"!", "=">>, s_10), rating,
          Join(rating, <<" ", ">", " ">>, s_10)}

ApplyFilter ==
    /\ ~Filtered
    /\ \E where \in FilterConditions :
        \E r \in {apply_filter(headers, rows, where)} :
            /\ call' = [op |-> "filter", arg |-> where]
            /\ out' = IF r.ok THEN Return(None) ELSE r
            /\ rows' = IF r.ok THEN r.value ELSE rows
            /\ prev' = rows
            /\ UNCHANGED headers

(***************************************************************************)
(* apply_sort                                                              *)
(***************************************************************************)
\* all(self._is_numeric(r[col]) for r in self.rows if r[col])
AllNumeric(rs, col) ==
    \A i \in 1..Len(rs) : rs[i][col] # <<>> => _is_numeric(rs[i][col])

\* key(row), for a row whose value float() accepts when the column is numeric.
key(row, col, numeric, direction) ==
    LET v == IF numeric THEN Float(row[col]) ELSE row[col]
    IN  IF direction = asc THEN v
        ELSE IF numeric THEN 0 - v
        ELSE Reversed(v)

KeyLess(numeric, k1, k2) == IF numeric THEN k1 < k2 ELSE StrLess(k1, k2)

\* list.sort(key=key) is stable: a row goes behind every row placed before
\* it whose key is not greater than its own.
RECURSIVE StableSort(_, _, _, _)
StableSort(rs, col, numeric, direction) ==
    IF rs = <<>> THEN <<>>
    ELSE LET done == StableSort(SubSeq(rs, 1, Len(rs) - 1), col, numeric, direction)
             r == rs[Len(rs)]
             k == key(r, col, numeric, direction)
             p == Cardinality({i \in 1..Len(done) :
                     ~KeyLess(numeric, k, key(done[i], col, numeric, direction))})
         IN  SubSeq(done, 1, p) \o <<r>> \o SubSeq(done, p + 1, Len(done))

\* col, token = self._parse_condition(condition, expected_op="="): a result
\* of three parts does not unpack into two names.
ParsePair(condition) ==
    LET pc == _parse_condition(condition, <<"=">>)
    IN  IF ~pc.ok THEN pc
        ELSE IF Len(pc.value) # 2
        THEN Raise("ValueError", "too many values to unpack (expected 2)", <<>>)
        ELSE pc

apply_sort(hs, rs, order_by) ==
    LET pc == ParsePair(order_by)
    IN  IF ~pc.ok THEN pc
        ELSE LET col == pc.value[1]
                 direction == pc.value[2]
             IN  IF col \notin Columns(hs) THEN ColumnNotFound(col)
                 ELSE IF direction \notin {asc, desc}
                 THEN Raise("ValueError", "Sort direction must be 'asc' or 'desc'.", <<>>)
                 ELSE LET numeric == AllNumeric(rs, col)
                          bad == {i \in 1..Len(rs) : ~_is_numeric(rs[i][col])}
                      IN  IF numeric /\ bad # {}
                          THEN FloatError(rs[CHOOSE i \in bad : \A j \in bad : i <= j][col])
                          ELSE Return(StableSort(rs, col, numeric, direction))

SortConditions ==
    {Join(c, <<"=">>, d) : c \in {brand, rating, price}, d \in {asc, desc}}
    \cup {Join(rating, <<"=">>, up), Join(price, <<"=">>, up),
          Join(rating, <<">">>, asc), rating, Join(rating, <<" ", "=", " ">>, desc)}

ApplySort ==
    /\ ~Sorted
    /\ \E order_by \in SortConditions :
        \E r \in {apply_sort(headers, rows, order_by)} :
            /\ call' = [op |-> "sort", arg |-> order_by]
            /\ out' = IF r.ok THEN Return(None) ELSE r
            /\ rows' = IF r.ok THEN r.value ELSE rows
            /\ prev' = rows
            /\ UNCHANGED headers

(***************************************************************************)
(* apply_aggregate                                                         *)
(***************************************************************************)
RECURSIVE Sum(_)
Sum(vs) == IF vs = <<>> THEN 0 ELSE Head(vs) + Sum(Tail(vs))

\* min(vs) and max(vs) keep the first smallest and the first largest item.
RECURSIVE Min(_)
Min(vs) ==
    IF Len(vs) = 1 THEN vs[1]
    ELSE LET m == Min(SubSeq(vs, 1, Len(vs) - 1))
         IN  IF vs[Len(vs)] < m THEN vs[Len(vs)] ELSE m

RECURSIVE Max(_)
Max(vs) ==
    IF Len(vs) = 1 THEN vs[1]
    ELSE LET m == Max(SubSeq(vs, 1, Len(vs) - 1))
         IN  IF vs[Len(vs)] > m THEN vs[Len(vs)] ELSE m

\* round(num / den, 2) in units of 1/Scale, num in the same units and not
\* negative: to the nearest unit, a tie to the even one.  A tie of binary
\* floats is a quotient that is exact in binary, so the rule is the same.
Round2(num, den) ==
    LET q == num \div den
        r == num % den
    IN  IF 2 * r < den THEN q
        ELSE IF 2 * r > den THEN q + 1
        ELSE IF q % 2 = 0 THEN q
        ELSE q + 1

EmptySequence(f) == Raise("ValueError", "arg is an empty sequence", f)

\* _agg_functions[agg](values), rounded when agg is avg
Aggregated(agg, values) ==
    IF agg = avg
    THEN Return(IF values # <<>> THEN Round2(Sum(values), Len(values)) ELSE 0)
    ELSE IF values = <<>> THEN EmptySequence(agg)
    ELSE IF agg = min THEN Return(Min(values))
    ELSE Return(Max(values))

\* [float(r[col]) for r in self.rows if r[col]]
RECURSIVE ValuesCountingEmptyAsZero(_, _)
ValuesCountingEmptyAsZero(rs, col) ==
    IF rs = <<>> THEN <<>>
    ELSE (IF Head(rs)[col] # <<>> THEN <<Float(Head(rs)[col])>> ELSE <<0>>)
         \o ValuesCountingEmptyAsZero(Tail(rs), col)

RECURSIVE Values(_, _)
Values(rs, col) ==
    IF rs = <<>> THEN <<>>
    ELSE (IF Head(rs)[col] # <<>> THEN <<Float(Head(rs)[col])>> ELSE <<>>)
         \o Values(Tail(rs), col)

apply_aggregate_ColumnFirst(hs, rs, aggregate) ==
    LET pc == ParsePair(aggregate)
    IN  IF ~pc.ok THEN pc
        ELSE LET col == pc.value[1]
                 agg == pc.value[2]
             IN  IF col \notin Columns(hs) THEN ColumnNotFound(col)
                 ELSE IF rs = <<>> THEN Raise("ValueError", "No rows to aggregate.", <<>>)
                 ELSE IF ~AllNumeric(rs, col)
                 THEN Raise("ValueError", "Column must be numeric for aggregation.", col)
                 ELSE IF agg \notin {avg, min, max}
                 THEN Raise("KeyError", "", agg)
                 ELSE LET r == Aggregated(agg, Values(rs, col))
                      IN  IF r.ok THEN Return(<<agg, r.value>>) ELSE r

apply_aggregate(hs, rs, aggregate) ==
    IF rs = <<>> THEN Raise("ValueError", "No rows to aggregate.", <<>>)
    ELSE LET pc == ParsePair(aggregate)
         IN  IF ~pc.ok THEN pc
             ELSE LET col == pc.value[1]
                      agg == pc.value[2]
                  IN  IF col \notin Columns(hs) THEN ColumnNotFound(col)
                      ELSE IF ~AllNumeric(rs, col)
                      THEN Raise("ValueError", "Column must be numeric for aggregation.", col)
                      ELSE IF agg \notin {avg, min, max}
                      THEN Raise("KeyError", "", agg)
                      ELSE LET r == Aggregated(agg, Values(rs, col))
                           IN  IF r.ok THEN Return(<<agg, r.value>>) ELSE r

AggregateConditions ==
    {Join(c, <<"=">>, k) : c \in {brand, rating, price}, k \in {avg, min, max}}
    \cup {Join(c, <<"=">>, sum) : c \in {brand, rating, price}}
    \cup {Join(rating, <<">">>, avg), rating}

ApplyAggregate ==
    /\ ~Consumed
    /\ \E aggregate \in AggregateConditions :
        /\ call' = [op |-> "aggregate", arg |-> aggregate]
        /\ out' = apply_aggregate(headers, rows, aggregate)
        /\ prev' = rows
        /\ UNCHANGED <<headers, rows>>

(***************************************************************************)
(* grouped_report                                                          *)
(***************************************************************************)
average_rating ==
    <<"a", "v", "e", "r", "a", "g", "e", "-", "r", "a", "t", "i", "n", "g">>
min_rating == <<"m", "i", "n", "-", "r", "a", "t", "i", "n", "g">>
max_rating == <<"m", "a", "x", "-", "r", "a", "t", "i", "n", "g">>
median_rating == <<"m", "e", "d", "i", "a", "n", "-", "r", "a", "t", "i", "n", "g">>

\* s.replace(old, new), old not empty
RECURSIVE Replace(_, _, _)
Replace(s, old, new) ==
    IF Len(s) < Len(old) THEN s
    ELSE IF SubSeq(s, 1, Len(old)) = old
    THEN new \o Replace(SubSeq(s, Len(old) + 1, Len(s)), old, new)
    ELSE <<Head(s)>> \o Replace(Tail(s), old, new)

\* row.get(col)
Get(row, col) == IF col \in DOMAIN row THEN row[col] ELSE None

\* if brand and rating and self._is_numeric(rating)
EligibleEmptyBrand(row) ==
    /\ Get(row, brand) # None
    /\ Get(row, rating) \notin {None, <<>>}
    /\ _is_numeric(Get(row, rating))

Eligible(row) ==
    /\ Get(row, brand) \notin {None, <<>>}
    /\ Get(row, rating) \notin {None, <<>>}
    /\ _is_numeric(Get(row, rating))

\* groups[brand]: the ratings of the eligible rows of a brand, in row order
RECURSIVE Group(_, _)
Group(rs, b) ==
    IF rs = <<>> THEN <<>>
    ELSE (IF Eligible(Head(rs)) /\ Head(rs)[brand] = b
          THEN <<Float(Head(rs)[rating])>>
          ELSE <<>>)
         \o Group(Tail(rs), b)

\* the keys of groups
GroupKeys(rs) == {rs[i][brand] : i \in {j \in 1..Len(rs) : Eligible(rs[j])}}

\* sorted(keys): the keys differ, so the lists behind them are never compared
RECURSIVE SortedKeys(_)
SortedKeys(ks) ==
    IF ks = {} THEN <<>>
    ELSE LET k == CHOOSE k1 \in ks : \A k2 \in ks \ {k1} : StrLess(k1, k2)
         IN  <<k>> \o SortedKeys(ks \ {k})

\* _report_funcs[report](ratings), rounded when the label is "average"
Stat(report, ratings) ==
    IF report = average_rating
    THEN (IF ratings # <<>> THEN Round2(Sum(ratings), Len(ratings)) ELSE 0)
    ELSE IF report = min_rating THEN Min(ratings)
    ELSE Max(ratings)

grouped_report(rs, report) ==
    IF report \notin {average_rating, min_rating, max_rating}
    THEN Raise("ValueError",
               "Invalid report. Supported: average-rating, min-rating, max-rating.",
               report)
    ELSE LET ks == SortedKeys(GroupKeys(rs))
             stat == Replace(report, <<"-", "r", "a", "t", "i", "n", "g">>, <<>>)
         IN  Return([i \in 1..Len(ks) |->
                 [brand |-> ks[i], stat |-> stat,
                  value |-> Stat(report, Group(rs, ks[i]))]])

Reports == {average_rating, min_rating, max_rating, median_rating}

GroupedReport ==
    /\ ~Consumed
    /\ \E report \in Reports :
        /\ call' = [op |-> "report", arg |-> report]
        /\ out' = grouped_report(rows, report)
        /\ prev' = rows
        /\ UNCHANGED <<headers, rows>>

Next == ApplyFilter \/ ApplySort \/ ApplyAggregate \/ GroupedReport

Spec == Init /\ [][Next]_vars

(***************************************************************************)
(* from_files                                                              *)
(***************************************************************************)
\* What open() and csv.DictReader give for one path: no file, or the
\* fieldnames (empty for a file without a header line) and the records.
NoFile == [exists |-> FALSE, fieldnames |-> <<>>, records |-> <<>>]

LoadHeaders == {<<name, rating>>, <<brand, price>>}

Sources ==
    UNION {{[exists |-> TRUE, fieldnames |-> h, records |-> rs] :
                rs \in SeqsUpTo(RowsOf(h), MaxSourceRows)} : h \in LoadHeaders}
    \cup {[exists |-> TRUE, fieldnames |-> <<>>, records |-> <<>>], NoFile}

\* the loop of from_files over the paths left, with the headers and the rows
\* read so far
RECURSIVE ReadAllKeepingLastSource(_, _, _)
ReadAllKeepingLastSource(paths, hs, all_rows) ==
    IF paths = <<>> THEN Return(<<hs, all_rows>>)
    ELSE LET f == Head(paths)
         IN  IF ~f.exists THEN Raise("FileNotFoundError", "No such file", <<>>)
             ELSE IF hs = None /\ f.fieldnames = <<>>
             THEN Raise("ValueError", "Empty CSV", <<>>)
             ELSE IF hs # None /\ f.fieldnames # hs
             THEN Raise("ValueError", "Headers mismatch", <<>>)
             ELSE ReadAllKeepingLastSource(Tail(paths), f.fieldnames, f.records)

RECURSIVE ReadAll(_, _, _)
ReadAll(paths, hs, all_rows) ==
    IF paths = <<>> THEN Return(<<hs, all_rows>>)
    ELSE LET f == Head(paths)
         IN  IF ~f.exists THEN Raise("FileNotFoundError", "No such file", <<>>)
             ELSE IF hs = None /\ f.fieldnames = <<>>
             THEN Raise("ValueError", "Empty CSV", <<>>)
             ELSE IF hs # None /\ f.fieldnames # hs
             THEN Raise("ValueError", "Headers mismatch", <<>>)
             ELSE ReadAll(Tail(paths), f.fieldnames, all_rows \o f.records)

from_files(file_paths) ==
    LET r == ReadAll(file_paths, None, <<>>)
    IN  IF ~r.ok THEN r
        ELSE IF r.value[1] = None THEN Raise("ValueError", "No files provided", <<>>)
        ELSE IF r.value[1] = <<>> THEN Raise("ValueError", "CSV file is empty or invalid.", <<>>)
        ELSE r

\* main() before CSVProcessor.from_files(args.files): the paths are given,
\* there is no table yet
InitLoad ==
    /\ headers = <<>>
    /\ rows = <<>>
    /\ prev = <<>>
    /\ call \in {[op |-> "start", arg |-> file_paths] :
                    file_paths \in SeqsUpTo(Sources, MaxFiles)}
    /\ out = Return(None)

FromFiles ==
    /\ call.op = "start"
    /\ \E r \in {from_files(call.arg)} :
        /\ call' = [op |-> "load", arg |-> call.arg]
        /\ out' = IF r.ok THEN Return(None) ELSE r
        /\ headers' = IF r.ok THEN r.value[1] ELSE headers
        /\ rows' = IF r.ok THEN r.value[2] ELSE rows
        /\ prev' = rows

SpecLoad == InitLoad /\ [][FromFiles]_vars

(***************************************************************************)
(* Properties.  A call is read from the text it was given: a condition is  *)
(* Join(c, o, v) for a column name c, an operator text o and a token v.    *)
(***************************************************************************)
ColumnNames == {brand, rating, name, price}

Operands == {s_9_75, s_10, s_x, s_a}

Greater == <<">">>
Less == <<"<">>
Equals == <<"=">>

\* v1 compared with v2 as numbers
NumLess(v1, v2) == Float(v1) < Float(v2)

Permutation(s, t) ==
    /\ Len(s) = Len(t)
    /\ \E f \in [1..Len(s) -> 1..Len(s)] :
        /\ \A i, j \in 1..Len(s) : i # j => f[i] # f[j]
        /\ \A i \in 1..Len(s) : s[i] = t[f[i]]

\* the rows of rs whose column c holds a value
Holding(rs, c) == {i \in 1..Len(rs) : rs[i][c] # <<>>}

RECURSIVE Total(_, _, _)
Total(rs, c, I) ==
    IF I = {} THEN 0
    ELSE LET i == CHOOSE j \in I : TRUE
         IN  Float(rs[i][c]) + Total(rs, c, I \ {i})

\* v (in units of 1/Scale) is sum / count rounded to a unit
IsRounded(v, total, count) ==
    /\ count > 0
    /\ 2 * (v * count - total) <= count
    /\ 2 * (total - v * count) <= count

\* the rows of brand b whose rating is eligible: non-empty and numeric
Rated(b) ==
    IF {brand, rating} \subseteq Columns(headers)
    THEN {i \in 1..Len(rows) :
            /\ rows[i][brand] = b
            /\ rows[i][rating] # <<>>
            /\ _is_numeric(rows[i][rating])}
    ELSE {}

\* the brands a report has an entry for
RatedBrands ==
    IF brand \in Columns(headers)
    THEN {b \in {rows[i][brand] : i \in 1..Len(rows)} : b # <<>> /\ Rated(b) # {}}
    ELSE {}

\* the number of rows in the sources before the i-th
Before(files, i) ==
    LET lens == [k \in 1..Len(files) |-> Len(files[k].records)]
    IN  Sum(SubSeq(lens, 1, i - 1))

\* what may stand after the operator of a condition
Tokens == Operands \cup {asc, desc, up, avg, min, max, sum}

\* the call failed with the error that names column c
NamesColumn(c) ==
    /\ ~out.ok
    /\ out.exc = "ValueError"
    /\ out.msg = "Column not found in CSV."
    /\ out.about = c

\* the condition s cut at position p, both sides trimmed
SplitAt(s, p) == <<strip(SubSeq(s, 1, p - 1)), <<s[p]>>, strip(SubSeq(s, p + 1, Len(s)))>>

Least(S) == CHOOSE i \in S : \A j \in S : i <= j

\* the positions of s holding one of chars
At(s, chars) == {i \in 1..Len(s) : s[i] \in chars}

----
\* C1 (as claimed): apply_filter("c>v") / ("c<v") on an existing column c
\* keeps exactly the rows whose c value, as a number, is strictly greater /
\* less than v, in their order; and whenever a row's c value or v does not
\* parse as a number the call fails.
C1_AsClaimed ==
    call.op = "filter" =>
        \A c \in Columns(headers), o \in {Greater, Less}, v \in Operands :
            call.arg = Join(c, o, v) =>
                IF _is_numeric(v) /\ \A i \in 1..Len(prev) : _is_numeric(prev[i][c])
                THEN /\ out.ok
                     /\ rows = SelectSeq(prev, LAMBDA r :
                                   IF o = Greater THEN NumLess(v, r[c]) ELSE NumLess(r[c], v))
                ELSE ~out.ok

\* C1 (amended): as claimed, except that an operand that does not parse
\* fails the call only when the table has a row to test; a row value that
\* does not parse always fails it, and a failed call leaves the rows alone.
C1_FilterStrict ==
    call.op = "filter" =>
        \A c \in Columns(headers), o \in {Greater, Less}, v \in Operands :
            call.arg = Join(c, o, v) =>
                IF _is_numeric(v) /\ \A i \in 1..Len(prev) : _is_numeric(prev[i][c])
                THEN /\ out.ok
                     /\ rows = SelectSeq(prev, LAMBDA r :
                                   IF o = Greater THEN NumLess(v, r[c]) ELSE NumLess(r[c], v))
                ELSE prev # <<>> => (~out.ok /\ out.exc = "ValueError" /\ rows = prev)

\* a filter that failed on the second row, the first one passing the test
C1_Witness ==
    /\ call.op = "filter"
    /\ call.arg = Join(rating, Greater, s_9_75)
    /\ Len(prev) >= 2
    /\ prev[1][rating] = s_10
    /\ ~_is_numeric(prev[2][rating])
    /\ ~out.ok

\* C2: after apply_sort("c=asc") on an existing column the rows are a
\* permutation of the previous rows in non-decreasing order of c, after
\* "c=desc" in non-increasing order; numbers are compared when every
\* non-empty value of c is numeric, strings otherwise.
C2_AsClaimed ==
    call.op = "sort" =>
        \A c \in Columns(headers), d \in {asc, desc} :
            (call.arg = Join(c, Equals, d) /\ out.ok) =>
                /\ Permutation(rows, prev)
                /\ \A i, j \in 1..Len(rows) :
                     i < j =>
                        LET lo == IF d = asc THEN rows[i][c] ELSE rows[j][c]
                            hi == IF d = asc THEN rows[j][c] ELSE rows[i][c]
                        IN  IF \A k \in Holding(prev, c) : _is_numeric(prev[k][c])
                            THEN ~NumLess(hi, lo)
                            ELSE ~StrLess(hi, lo)

\* C3 (as claimed): on a non-empty table and a numeric column c,
\* apply_aggregate returns the minimum, the maximum, or the mean rounded to
\* two places, of the non-empty values of c.
C3_AsClaimed ==
    call.op = "aggregate" =>
        \A c \in Columns(headers), k \in {avg, min, max} :
            (/\ call.arg = Join(c, Equals, k)
             /\ rows # <<>>
             /\ \A i \in Holding(rows, c) : _is_numeric(rows[i][c])) =>
                /\ out.ok
                /\ out.value[1] = k
                /\ k = min =>
                     /\ \E i \in Holding(rows, c) : out.value[2] = Float(rows[i][c])
                     /\ \A i \in Holding(rows, c) : out.value[2] <= Float(rows[i][c])
                /\ k = max =>
                     /\ \E i \in Holding(rows, c) : out.value[2] = Float(rows[i][c])
                     /\ \A i \in Holding(rows, c) : out.value[2] >= Float(rows[i][c])
                /\ k = avg =>
                     IsRounded(out.value[2], Total(rows, c, Holding(rows, c)),
                               Cardinality(Holding(rows, c)))

\* C3 (amended): the same, for a numeric column that holds at least one
\* non-empty value.
C3_AggregateOfHeldValues ==
    call.op = "aggregate" =>
        \A c \in Columns(headers), k \in {avg, min, max} :
            (/\ call.arg = Join(c, Equals, k)
             /\ rows # <<>>
             /\ Holding(rows, c) # {}
             /\ \A i \in Holding(rows, c) : _is_numeric(rows[i][c])) =>
                /\ out.ok
                /\ out.value[1] = k
                /\ k = min =>
                     /\ \E i \in Holding(rows, c) : out.value[2] = Float(rows[i][c])
                     /\ \A i \in Holding(rows, c) : out.value[2] <= Float(rows[i][c])
                /\ k = max =>
                     /\ \E i \in Holding(rows, c) : out.value[2] = Float(rows[i][c])
                     /\ \A i \in Holding(rows, c) : out.value[2] >= Float(rows[i][c])
                /\ k = avg =>
                     IsRounded(out.value[2], Total(rows, c, Holding(rows, c)),
                               Cardinality(Holding(rows, c)))

\* an average that was rounded, over a column with an empty value skipped
C3_Witness ==
    /\ call.op = "aggregate"
    /\ call.arg = Join(rating, Equals, avg)
    /\ out.ok
    /\ Holding(rows, rating) # 1..Len(rows)
    /\ out.value[2] * Cardinality(Holding(rows, rating))
         # Total(rows, rating, Holding(rows, rating))

C6_AsClaimed ==
    call.op \in {"filter", "sort", "aggregate"} =>
        \A c \in (ColumnNames \cup {rating \o <<"!">>}) \ Columns(headers),
           o \in {Greater, Less, Equals}, t \in Tokens :
            call.arg = Join(c, o, t) => NamesColumn(c)

\* C6 (amended): so do apply_filter for every condition it can parse,
\* apply_sort for a condition with one "=", and apply_aggregate for a
\* condition with one "=" on a table that has rows.
C6_UnknownColumn ==
    call.op \in {"filter", "sort", "aggregate"} =>
        \A c \in (ColumnNames \cup {rating \o <<"!">>}) \ Columns(headers),
           o \in {Greater, Less, Equals}, t \in Tokens :
            (/\ call.arg = Join(c, o, t)
             /\ call.op # "filter" => o = Equals
             /\ call.op = "aggregate" => prev # <<>>) => NamesColumn(c)

\* an aggregate of an unknown column with an unknown kind
C6_Witness ==
    /\ call.op = "aggregate"
    /\ call.arg = Join(price, Equals, sum)
    /\ rows # <<>>
    /\ NamesColumn(price)

\* C7: apply_aggregate fails first on an empty table ("No rows to
\* aggregate", whatever the column), then on a column that is not in the
\* header, then on a column holding a non-empty value that is not a number
\* ("must be numeric", naming the column).
C7_PreconditionOrder ==
    call.op = "aggregate" =>
        /\ rows = <<>> =>
             ~out.ok /\ out.exc = "ValueError" /\ out.msg = "No rows to aggregate."
        /\ \A c \in ColumnNames, k \in {avg, min, max, sum} :
             (call.arg = Join(c, Equals, k) /\ rows # <<>>) =>
                /\ c \notin Columns(headers) => NamesColumn(c)
                /\ (/\ c \in Columns(headers)
                    /\ \E i \in Holding(rows, c) : ~_is_numeric(rows[i][c])) =>
                        /\ ~out.ok
                        /\ out.exc = "ValueError"
                        /\ out.msg = "Column must be numeric for aggregation."
                        /\ out.about = c

\* an empty table asked for an unknown column: the empty table is reported
C7_Witness ==
    /\ call.op = "aggregate"
    /\ rows = <<>>
    /\ price \notin Columns(headers)
    /\ call.arg = Join(price, Equals, avg)
    /\ out.msg = "No rows to aggregate."

\* C8: a direction other than asc and desc given to apply_sort, and a kind
\* other than avg, min and max given to apply_aggregate on a non-empty
\* numeric column, fail with a ValueError and nothing else.
C8_AsClaimed ==
    /\ call.op = "sort" =>
         \A c \in Columns(headers), d \in Tokens \ {asc, desc} :
            call.arg = Join(c, Equals, d) => ~out.ok /\ out.exc = "ValueError"
    /\ call.op = "aggregate" =>
         \A c \in Columns(headers), k \in Tokens \ {avg, min, max} :
            (/\ call.arg = Join(c, Equals, k)
             /\ rows # <<>>
             /\ \A i \in Holding(rows, c) : _is_numeric(rows[i][c])) =>
                ~out.ok /\ out.exc = "ValueError"

\* C9: grouped_report with a supported kind fails on a table whose header
\* lacks "brand" or lacks "rating".
C9_AsClaimed ==
    (/\ call.op = "report"
     /\ call.arg \in {average_rating, min_rating, max_rating}
     /\ ~({brand, rating} \subseteq Columns(headers))) => ~out.ok

\* C10 (as claimed): a condition that does not hold exactly one "=" and
\* holds ">" or "<" is split at the first of the two in the string, giving
\* the trimmed text before it, that operator and the trimmed text after it;
\* a condition with none of ">", "<", "=" fails with "Condition must
\* contain >, < or =.".
C10_AsClaimed ==
    call.op = "parse" =>
        LET s == call.condition
        IN  /\ (Cardinality(At(s, {"="})) # 1 /\ At(s, {">", "<"}) # {}) =>
                 out.ok /\ out.value = SplitAt(s, Least(At(s, {">", "<"})))
            /\ At(s, {">", "<", "="}) = {} =>
                 /\ ~out.ok
                 /\ out.exc = "ValueError"
                 /\ out.msg = "Condition must contain >, < or =."

\* C10 (amended): such a condition is split at its first ">" when it holds
\* a ">", and at its first "<" only when it holds no ">".
C10_GreaterFirst ==
    call.op = "parse" =>
        LET s == call.condition
        IN  /\ (Cardinality(At(s, {"="})) # 1 /\ At(s, {">"}) # {}) =>
                 out.ok /\ out.value = SplitAt(s, Least(At(s, {">"})))
            /\ (Cardinality(At(s, {"="})) # 1 /\ At(s, {">"}) = {} /\ At(s, {"<"}) # {}) =>
                 out.ok /\ out.value = SplitAt(s, Least(At(s, {"<"})))
            /\ At(s, {">", "<", "="}) = {} =>
                 /\ ~out.ok
                 /\ out.exc = "ValueError"
                 /\ out.msg = "Condition must contain >, < or =."

\* a condition whose "<" stands before its ">": it was split at the ">"
C10_Witness ==
    /\ call.op = "parse"
    /\ At(call.condition, {"="}) = {}
    /\ At(call.condition, {">"}) # {}
    /\ At(call.condition, {"<"}) # {}
    /\ Least(At(call.condition, {"<"})) < Least(At(call.condition, {">"}))
    /\ out.ok
    /\ out.value[2] = Greater

====
